---- MODULE Spec2Model ----
(***************************************************************************)
(* Plugin sandbox (services/pluginSandbox.ts), the sandbox registry and    *)
(* the hook orchestrator of MainLayout (components/MainLayout.tsx), the    *)
(* plugin list handlers of PluginManager (components/PluginManager.tsx)    *)
(* and the encrypted store (services/secureStorage.ts).                    *)
(*                                                                         *)
(* Spec        : MainLayout with its sandboxes, workers and hook chains.   *)
(* FairSpec    : Spec with the fairness the event loop and the workers     *)
(*               give (a posted message is eventually handled).            *)
(* SandboxSpec : one PluginSandbox object driven through its public        *)
(*               methods (loadCode, executeHook, terminate).               *)
(* VaultSpec   : secureStorage.ts driven through its exported functions,   *)
(*               with page reloads, failing writes and changed bytes.      *)
(* SaveSpec    : the mutation handlers of MainLayout calling persistData   *)
(*               without awaiting it, the saves overlapping.               *)
(***************************************************************************)
EXTENDS Integers, Sequences, FiniteSets, TLC

VARIABLES
    storedPlugins, \* the plugin list of the data saveData wrote last
    plugins,     \* appData.plugins: the plugin records, in list order
    loaded,      \* loadInitialData has called setAppData
    sandboxes,   \* the sandboxes Map of MainLayout: plugin id -> sandbox (0: no entry)
    workers,     \* every PluginSandbox object constructed so far, with its worker
    chains,      \* every triggerPluginHook call made so far
    nEvents     \* user actions so far: plugin list updates and hook triggers

\* The state of services/secureStorage.ts.
VARIABLES
    db,          \* the IndexedDB store appDataStore: salt, verifier, data
    ls,          \* localStorage under the same three keys
    session,     \* the module's variables and the position of a running loadData
    history      \* what the calls made so far returned

pluginVars == <<storedPlugins, plugins, loaded, sandboxes, workers, chains, nEvents>>
vaultVars == <<db, ls, session, history>>
vars == <<pluginVars, vaultVars>>

\* ---------------------------------------------------------------- bounds

\* User actions (plugin list updates, hook triggers) in one behaviour of Spec.
MaxEvents == 2
\* executeHook calls in one behaviour of SandboxSpec.
MaxHookCalls == 2
\* PluginSandbox objects constructed in one behaviour of Spec.
MaxWorkers == MaxEvents + 1

\* --------------------------------------------------------------- domains

\* The hook names the application triggers.
AppHookNames == {"beforeMessageSend", "generateImage"}
\* The property names every object inherits; toString stands for them.
InheritedNames == {"toString"}
\* The hook names executeHook can be called with.
HookNames == AppHookNames \cup InheritedNames

ImagePluginId == "default-image-generator"
PluginIds == {ImagePluginId, "a", "b", "c"}

NoKey == ""
UserKey == "sk-user-key"

NoSandbox == 0
NoPlugin == ""
NoTicket == -1

Contents == 0 .. 2
InitialContents == {1}

NoSettings == [present |-> FALSE, apiKey |-> NoKey]
DefaultSettings == [present |-> TRUE, apiKey |-> NoKey]
KeySettings == [present |-> TRUE, apiKey |-> UserKey]

NoPayload == [content |-> -1, settings |-> NoSettings]
\* The string "[object Undefined]", which no payload is equal to.
ObjectUndefined == [content |-> -2, settings |-> NoSettings]

InitialPayload(c) == [content |-> c, settings |-> NoSettings]

\* The plugin programs of the model. Each is the text of a plugin's code.
PluginCodes ==
    {"image", "upper", "double", "thrower", "nullthrower", "rogue", "broken", "twice",
     "echo"}

\* What a plugin's code registers with nexus.hooks.register when it is run:
\* for each hook name, the callback of its first call for that name.
Registers(code) ==
    [h \in HookNames |->
        CASE code = "image"   /\ h = "generateImage"     -> "async"
          [] code = "upper"   /\ h = "beforeMessageSend" -> "inc"
          [] code = "double"  /\ h = "beforeMessageSend" -> "dbl"
          [] code = "thrower" /\ h = "beforeMessageSend" -> "throw"
          [] code = "nullthrower" /\ h = "beforeMessageSend" -> "thrownull"
          [] code = "rogue"   /\ h = "beforeMessageSend" -> "rogue"
          [] code = "twice"   /\ h = "beforeMessageSend" -> "throw"
          [] code = "echo"    /\ h = "beforeMessageSend" -> "dup"
          [] OTHER -> "none"]

\* The callback of the code's second call of nexus.hooks.register for a name.
RegistersNext(code) ==
    [h \in HookNames |->
        IF code = "twice" /\ h = "beforeMessageSend" THEN "inc" ELSE "none"]

\* The code throws at top level.
LoadThrows(code) == code = "broken"

defaultImagePlugin ==
    [id |-> ImagePluginId, enabled |-> TRUE, code |-> "image", settings |-> DefaultSettings]

Plugin(id, enabled, code, settings) ==
    [id |-> id, enabled |-> enabled, code |-> code, settings |-> settings]

\* The plugin lists loadData can return.
StoredPluginLists ==
    { << >>,
      << Plugin("a", TRUE, "double", NoSettings),
         Plugin("b", TRUE, "thrower", NoSettings),
         Plugin("c", TRUE, "upper", NoSettings),
         Plugin(ImagePluginId, FALSE, "image", KeySettings) >>,
      << Plugin(ImagePluginId, TRUE, "image", KeySettings),
         Plugin("a", TRUE, "rogue", NoSettings) >>,
      << Plugin("b", TRUE, "broken", NoSettings),
         Plugin(ImagePluginId, FALSE, "image", DefaultSettings) >> }

\* ------------------------------------------------------------- messages

Msg(type, ticket, hookName, data, code) ==
    [type |-> type, ticket |-> ticket, hookName |-> hookName, data |-> data, code |-> code]

LoadCodeMsg(code) == Msg("LOAD_CODE", NoTicket, "", NoPayload, code)
ExecuteHookMsg(hookName, data, ticket) == Msg("EXECUTE_HOOK", ticket, hookName, data, "")
Reply(type, ticket, result) == Msg(type, ticket, "", result, "")

RemoveAt(s, i) == SubSeq(s, 1, i - 1) \o SubSeq(s, i + 1, Len(s))

\* ------------------------------------------------- the worker's script

Inc(c) == (c + 1) % Cardinality(Contents)
Dbl(c) == (2 * c) % Cardinality(Contents)

\* The messages the worker posts while it runs `hook` for EXECUTE_HOOK message m:
\* the messages the handler posts itself, then the HOOK_RESULT or HOOK_ERROR.
\*   inc      : the handler logs and returns { content: <new content> }
\*   dbl      : the handler returns { content: <new content> }
\*   throw    : the handler throws an Error
\*   thrownull: the handler throws null; reading error.message in the catch
\*              block throws in turn, so nothing is posted
\*   async    : the handler returns a Promise, which postMessage cannot clone
\*   rogue    : the handler posts a message of an unknown kind that carries the
\*              ticket of the call, and returns its payload
\*   dup      : the handler posts a HOOK_RESULT that carries the ticket of the
\*              call and its payload, and returns its payload
\*   inherited: Object.prototype.toString, called without a receiver, returns
\*              the string "[object Undefined]"
\*   none     : the lookup finds nothing
RunHook(hook, m) ==
    CASE hook = "inc" ->
            << Reply("LOG", NoTicket, NoPayload),
               Reply("HOOK_RESULT", m.ticket,
                     [content |-> Inc(m.data.content), settings |-> NoSettings]) >>
      [] hook = "dbl" ->
            << Reply("HOOK_RESULT", m.ticket,
                     [content |-> Dbl(m.data.content), settings |-> NoSettings]) >>
      [] hook = "throw" -> << Reply("HOOK_ERROR", m.ticket, NoPayload) >>
      [] hook = "thrownull" -> << >>
      [] hook = "async" -> << Reply("HOOK_ERROR", m.ticket, NoPayload) >>
      [] hook = "inherited" -> << Reply("HOOK_RESULT", m.ticket, ObjectUndefined) >>
      [] hook = "dup" ->
            << Reply("HOOK_RESULT", m.ticket, m.data),
               Reply("HOOK_RESULT", m.ticket, m.data) >>
      [] hook = "rogue" ->
            << Reply("PING", m.ticket, NoPayload),
               Reply("HOOK_RESULT", m.ticket, m.data) >>
      [] OTHER -> << Reply("HOOK_RESULT", m.ticket, m.data) >>

\* A register that keeps the callback a name already has.
KeepEarlier(old, callback) == IF old = "none" THEN callback ELSE old

\* userHooks[hookName] = callback: what the name holds after the assignment.
Assign(old, callback) == callback

\* One call of nexus.hooks.register for each name regs has a callback for.
RegisterEach(userHooks, regs) ==
    [h \in HookNames |->
        IF regs[h] # "none" THEN Assign(userHooks[h], regs[h]) ELSE userHooks[h]]

\* nexus.hooks.register for every hook the code registers, in the order of
\* its calls.
Register(userHooks, code) ==
    RegisterEach(RegisterEach(userHooks, Registers(code)), RegistersNext(code))

\* The callbacks register has been called with for each name, in call order.
RegisterCalls(calls, code) ==
    [h \in HookNames |->
        calls[h]
          \o (IF Registers(code)[h] # "none" THEN << Registers(code)[h] >> ELSE << >>)
          \o (IF RegistersNext(code)[h] # "none" THEN << RegistersNext(code)[h] >> ELSE << >>)]

\* userHooks[hookName] of the worker: userHooks is a plain object, so a name
\* that was not registered is looked up on Object.prototype.
Lookup(userHooks, hookName) ==
    IF userHooks[hookName] # "none" THEN userHooks[hookName]
    ELSE IF hookName \in InheritedNames THEN "inherited"
    ELSE "none"

\* The messages the code posts with nexus.log while it is loaded.
LoadLogs(code) ==
    IF code \in {"image", "upper"} THEN << Reply("LOG", NoTicket, NoPayload) >> ELSE << >>

\* self.onmessage of the worker, for message m.
WorkerOnMessage(sb, m) ==
    CASE m.type = "LOAD_CODE" ->
            IF LoadThrows(m.code)
            THEN [sb EXCEPT !.outbox = Append(@, Reply("LOAD_ERROR", NoTicket, NoPayload))]
            ELSE [sb EXCEPT !.userHooks = Register(@, m.code),
                            !.registerCalls = RegisterCalls(@, m.code),
                            !.outbox = @ \o LoadLogs(m.code)
                                         \o << Reply("LOAD_SUCCESS", NoTicket, NoPayload) >>]
      [] m.type = "EXECUTE_HOOK" ->
            [sb EXCEPT !.outbox = @ \o RunHook(Lookup(sb.userHooks, m.hookName), m)]
      [] OTHER -> sb

\* ------------------------------------------------- class PluginSandbox

\* new PluginSandbox(): a worker running the script, no hook pending.
Constructor ==
    [ effectFor     |-> NoPlugin,
      code          |-> "",
      terminated    |-> FALSE,
      loadListener  |-> FALSE,
      userHooks     |-> [h \in HookNames |-> "none"],
      registerCalls |-> [h \in HookNames |-> << >>],
      inbox         |-> << >>,
      outbox        |-> << >>,
      ticketCounter |-> 0,
      pendingHooks  |-> {},
      promises      |-> << >> ]

\* worker.postMessage: a terminated worker receives nothing.
PostMessage(sb, m) ==
    IF sb.terminated THEN sb ELSE [sb EXCEPT !.inbox = Append(@, m)]

\* loadCode(code): attach loadListener, post LOAD_CODE. The sandbox record
\* keeps the code it was called with.
LoadCode(sb, code) ==
    PostMessage([sb EXCEPT !.loadListener = TRUE, !.code = code], LoadCodeMsg(code))

\* The promise executeHook returns, with the call it belongs to.
Promise(hookName, data) ==
    [hookName |-> hookName, data |-> data, state |-> "pending", value |-> NoPayload]

\* executeHook(hookName, data).
ExecuteHook(sb, hookName, data) ==
    PostMessage(
        [sb EXCEPT !.ticketCounter = @ + 1,
                   !.pendingHooks = @ \cup {sb.ticketCounter},
                   !.promises = Append(@, Promise(hookName, data))],
        ExecuteHookMsg(hookName, data, sb.ticketCounter))

\* terminate(): worker.terminate(). The worker stops at once; what it has not
\* yet handled and what it has posted but the host has not yet seen is lost.
Terminate(sb) ==
    [sb EXCEPT !.terminated = TRUE, !.inbox = << >>, !.outbox = << >>]

\* A handler that takes the responses to arrive in the order of the calls.
TicketOfOldest(sb, m) ==
    IF sb.pendingHooks = {} THEN m.ticket
    ELSE CHOOSE t \in sb.pendingHooks : \A u \in sb.pendingHooks : t <= u

\* The pending entry a message from the worker is looked up under.
TicketOf(sb, m) == m.ticket

Settle(promises, ticket, state, value) ==
    [promises EXCEPT ![ticket + 1].state = state, ![ticket + 1].value = value]

\* worker.onmessage of the host, for message m.
OnMessage(sb, m) ==
    IF m.type = "LOG" THEN sb
    ELSE IF m.ticket # NoTicket /\ TicketOf(sb, m) \in sb.pendingHooks
    THEN LET ticket == TicketOf(sb, m)
             settled ==
                IF m.type = "HOOK_RESULT"
                THEN Settle(sb.promises, ticket, "resolved", m.data)
                ELSE IF m.type = "HOOK_ERROR"
                THEN Settle(sb.promises, ticket, "rejected", NoPayload)
                ELSE sb.promises
         IN [sb EXCEPT !.promises = settled, !.pendingHooks = @ \ {ticket}]
    ELSE sb

\* A caller that takes the sandbox as loaded whichever way loadCode settled.
LoadSettles(m) == m.type \in {"LOAD_SUCCESS", "LOAD_ERROR"}

\* The promise of loadCode resolves on LOAD_SUCCESS; on LOAD_ERROR it rejects.
LoadResolves(m) == m.type = "LOAD_SUCCESS"

\* loadListener, for message m: it detaches on LOAD_SUCCESS and LOAD_ERROR.
LoadListener(sb, m) ==
    IF sb.loadListener /\ m.type \in {"LOAD_SUCCESS", "LOAD_ERROR"}
    THEN [sb EXCEPT !.loadListener = FALSE]
    ELSE sb

\* ------------------------------------------------------------ MainLayout

\* loadInitialData: the default image plugin is pushed when the stored list
\* does not have it, and given its default settings when it has none.
InjectDefaultPlugin(stored) ==
    IF \E i \in 1 .. Len(stored) : stored[i].id = defaultImagePlugin.id
    THEN [i \in 1 .. Len(stored) |->
             IF stored[i].id = defaultImagePlugin.id /\ ~stored[i].settings.present
             THEN [stored[i] EXCEPT !.settings = defaultImagePlugin.settings]
             ELSE stored[i]]
    ELSE Append(stored, defaultImagePlugin)

\* The forEach of the sandbox-management effect, from plugin i on: the part of
\* each async callback that runs before its first await.
RECURSIVE EffectForEach(_, _, _, _)
EffectForEach(pl, i, sbx, ws) ==
    IF i > Len(pl) THEN [sandboxes |-> sbx, workers |-> ws]
    ELSE LET plugin == pl[i]
             existingSandbox == sbx[plugin.id]
         IN IF plugin.enabled /\ existingSandbox = NoSandbox
            THEN EffectForEach(pl, i + 1, sbx,
                     Append(ws, LoadCode([Constructor EXCEPT !.effectFor = plugin.id],
                                         plugin.code)))
            ELSE IF ~plugin.enabled /\ existingSandbox # NoSandbox
            THEN EffectForEach(pl, i + 1,
                     [sbx EXCEPT ![plugin.id] = NoSandbox],
                     [ws EXCEPT ![existingSandbox] = Terminate(@)])
            ELSE EffectForEach(pl, i + 1, sbx, ws)

\* The second loop of the effect: sandboxes of plugins no longer in the list.
EffectPrune(pl, sbx, ws) ==
    LET deleted == {id \in PluginIds :
                        /\ sbx[id] # NoSandbox
                        /\ ~\E i \in 1 .. Len(pl) : pl[i].id = id}
    IN [sandboxes |-> [id \in PluginIds |-> IF id \in deleted THEN NoSandbox ELSE sbx[id]],
        workers   |-> [w \in 1 .. Len(ws) |->
                          IF \E id \in deleted : sbx[id] = w THEN Terminate(ws[w]) ELSE ws[w]]]

\* The sandbox-management effect, run for plugin list pl.
Effect(pl, sbx, ws) ==
    LET r == EffectForEach(pl, 1, sbx, ws)
    IN EffectPrune(pl, r.sandboxes, r.workers)

\* The continuation of the effect's callback once loadCode has resolved.
EffectAfterLoad(sbx, w, sb) ==
    IF sb.effectFor # NoPlugin THEN [sbx EXCEPT ![sb.effectFor] = w] ELSE sbx

\* ------------------------------------------------------ triggerPluginHook

EnabledIds(pl) ==
    LET enabledPlugins == SelectSeq(pl, LAMBDA p : p.enabled)
    IN [i \in 1 .. Len(enabledPlugins) |-> enabledPlugins[i].id]

ImageSettings(pl) ==
    IF \E i \in 1 .. Len(pl) : pl[i].id = ImagePluginId
    THEN LET i == CHOOSE j \in 1 .. Len(pl) : pl[j].id = ImagePluginId
         IN IF pl[i].settings.present THEN pl[i].settings ELSE DefaultSettings
    ELSE DefaultSettings

\* processedData before the loop: the payload, with the image plugin's
\* settings merged in for the generateImage hook.
Enrich(hookName, data, pl) ==
    IF hookName = "generateImage"
    THEN [data EXCEPT !.settings = ImageSettings(pl)]
    ELSE data

\* The state of a triggerPluginHook call before its loop.
\*   initial : the payload it was called with
\*   start   : processedData before the loop
\*   planned : the enabled plugins that have a sandbox when the call starts
\*   invoked : the plugins executeHook has been called for, with the sandbox
\*             and the ticket of each call
NewChain(hookName, data, pl, sbx) ==
    [ hookName       |-> hookName,
      initial        |-> data,
      start          |-> Enrich(hookName, data, pl),
      processedData  |-> Enrich(hookName, data, pl),
      enabledPlugins |-> EnabledIds(pl),
      i              |-> 0,
      pc             |-> "run",
      w              |-> NoSandbox,
      ticket         |-> NoTicket,
      planned        |-> SelectSeq(EnabledIds(pl), LAMBDA id : sbx[id] # NoSandbox),
      invoked        |-> << >> ]

\* The plugin whose sandbox the loop calls next, from plugin i on.
RECURSIVE NextPlugin(_, _, _)
NextPlugin(c, i, sbx) ==
    IF i > Len(c.enabledPlugins) THEN i
    ELSE IF sbx[c.enabledPlugins[i]] # NoSandbox THEN i
    ELSE NextPlugin(c, i + 1, sbx)

\* The for loop from plugin i on, up to its next await or its return.
ChainLoop(c, i, sbx, ws) ==
    LET n == NextPlugin(c, i, sbx)
    IN IF n > Len(c.enabledPlugins)
       THEN [chain   |-> [c EXCEPT !.pc = "done", !.i = n, !.w = NoSandbox,
                                   !.ticket = NoTicket],
             workers |-> ws]
       ELSE LET sandbox == sbx[c.enabledPlugins[n]]
            IN [chain   |-> [c EXCEPT !.pc = "await", !.i = n, !.w = sandbox,
                                      !.ticket = ws[sandbox].ticketCounter,
                                      !.invoked = Append(@,
                                          [id |-> c.enabledPlugins[n], w |-> sandbox,
                                           ticket |-> ws[sandbox].ticketCounter])],
                workers |-> [ws EXCEPT ![sandbox] =
                                ExecuteHook(@, c.hookName, c.processedData)]]

\* A loop that assigns whatever the awaited call produced.
AfterHookOverwrites(processedData, promise) == promise.value

\* processedData after the awaited executeHook has settled: the result when
\* it resolved, the previous payload when it rejected.
AfterHook(processedData, promise) ==
    IF promise.state = "resolved" THEN promise.value ELSE processedData

\* The await of executeHook stands in a try block whose catch logs the error.
CatchesHookError == TRUE

\* A triggerPluginHook call resumes after its awaited promise has settled: it
\* goes on with the next plugin, or, were a rejection not caught, rejects.
ResumeChain(c, promise, sbx, ws) ==
    IF promise.state = "rejected" /\ ~CatchesHookError
    THEN [chain   |-> [c EXCEPT !.pc = "rejected", !.w = NoSandbox, !.ticket = NoTicket],
          workers |-> ws]
    ELSE ChainLoop([c EXCEPT !.processedData = AfterHook(@, promise)], c.i + 1, sbx, ws)

\* The chains whose awaited promise has settled resume, in call order.
RECURSIVE ResumeChains(_, _, _, _)
ResumeChains(k, cs, sbx, ws) ==
    IF k > Len(cs) THEN [chains |-> cs, workers |-> ws]
    ELSE LET c == cs[k]
         IN IF /\ c.pc = "await"
               /\ ws[c.w].promises[c.ticket + 1].state # "pending"
            THEN LET r == ResumeChain(c, ws[c.w].promises[c.ticket + 1], sbx, ws)
                 IN ResumeChains(k + 1, [cs EXCEPT ![k] = r.chain], sbx, r.workers)
            ELSE ResumeChains(k + 1, cs, sbx, ws)

\* ------------------------------------------- services/secureStorage.ts

\* Calls of the exported functions in one behaviour of VaultSpec.
MaxVaultOps == 4

STORAGE_KEY_SALT == "salt"
STORAGE_KEY_PASS_VERIFIER == "verifier"
STORAGE_KEY_DATA == "data"

\* Passwords. The second is the first written twice.
Passwords == {"abcdabcd", "abcdabcdabcdabcd", "correcthorse"}
NoPassword == ""

\* legacySimpleXOR uses key.charCodeAt(i % key.length): the key stream of a
\* password is the password repeated without end, named here by its period.
Keystream(password) ==
    IF password \in {"abcdabcd", "abcdabcdabcdabcd"} THEN "abcd" ELSE password

NoSalt == 0

\* deriveKey(password, salt): PBKDF2, a function of both.
DeriveKey(password, salt) == [password |-> password, salt |-> salt]
NoCryptoKey == DeriveKey(NoPassword, NoSalt)

\* Application states, by what each list of AppData holds; plugins is optional.
NoState == [characters |-> "absent", chatSessions |-> "absent", plugins |-> "absent"]
NullValue == [characters |-> "null", chatSessions |-> "null", plugins |-> "null"]
EmptyState == [characters |-> "empty", chatSessions |-> "empty", plugins |-> "empty"]
FullState == [characters |-> "one", chatSessions |-> "one", plugins |-> "one"]
BareState == [characters |-> "one", chatSessions |-> "empty", plugins |-> "absent"]
\* The states saveData is called with.
AppStates == {FullState, BareState}

\* Texts: the verifier constant, JSON texts, and text that is neither.
NoText == [kind |-> "", value |-> NoState]
VerifierText == [kind |-> "password_is_correct", value |-> NoState]
Garbage == [kind |-> "garbage", value |-> NoState]
JSONStringify(v) == [kind |-> "json", value |-> v]
JSONParse(text) ==
    IF text.kind = "json" THEN [ok |-> TRUE, value |-> text.value]
    ELSE [ok |-> FALSE, value |-> NoState]

\* Stored values. A ciphertext names the key and the text it was made from;
\* intact is FALSE once its bytes have been changed in storage.
NoValue ==
    [scheme |-> "none", key |-> NoCryptoKey, iv |-> 0, plain |-> NoText, intact |-> TRUE]

\* A stored value that is the text itself, with the key beside it.
StoreInTheClear(data, key, iv) ==
    [scheme |-> "plain", key |-> key, iv |-> iv, plain |-> data, intact |-> TRUE]

\* encryptData(data, key), with the random IV it drew.
EncryptData(data, key, iv) ==
    [scheme |-> "gcm", key |-> key, iv |-> iv, plain |-> data, intact |-> TRUE]

\* decryptData(encryptedBase64, key): AES-GCM throws unless the key is the one
\* the ciphertext was made with and the ciphertext is intact.
DecryptData(encrypted, key) ==
    IF encrypted.scheme = "gcm" /\ encrypted.intact /\ encrypted.key = key
    THEN [ok |-> TRUE, text |-> encrypted.plain]
    ELSE [ok |-> FALSE, text |-> NoText]

\* What the legacy scheme stored: the text XORed with the password's key stream.
LegacyEncrypt(data, password) ==
    [scheme |-> "xor", key |-> DeriveKey(Keystream(password), NoSalt), iv |-> 0,
     plain |-> data, intact |-> TRUE]

\* legacyDecrypt(encryptedData, masterKey): throws without a key and on bytes
\* that are no UTF-8; otherwise XORs, which under another key stream or on
\* changed bytes leaves text that is neither the constant nor JSON.
LegacyDecrypt(encrypted, masterKey) ==
    IF masterKey = NoPassword \/ encrypted.scheme # "xor"
    THEN [ok |-> FALSE, text |-> NoText]
    ELSE IF encrypted.intact /\ encrypted.key.password = Keystream(masterKey)
    THEN [ok |-> TRUE, text |-> encrypted.plain]
    ELSE [ok |-> TRUE, text |-> Garbage]

\* The three keys of a store, all absent.
Absent(key) == IF key = STORAGE_KEY_SALT THEN NoSalt ELSE NoValue
NoStore ==
    [k \in {STORAGE_KEY_SALT, STORAGE_KEY_PASS_VERIFIER, STORAGE_KEY_DATA} |-> Absent(k)]

\* The module's variables, with the locals of a loadData that is migrating
\* and the ciphertexts of the saveData calls that have not yet written.
NewSession ==
    [ masterCryptoKey            |-> NoCryptoKey,
      saving                     |-> << >>,
      masterPasswordForMigration |-> NoPassword,
      pc                         |-> "idle",
      rawData                    |-> NoState,
      newSalt                    |-> NoSalt,
      newVerifier                |-> NoValue ]

\* What has been called and returned.
\*   random     : the random values drawn so far (salts and IVs)
\*   verified   : the last verifyMasterPassword call and what it returned
\*   loadedData : what the last loadData returned or that it threw, the path
\*                it took, the session it was called in and whether the blob
\*                it read was intact
\*   mutation   : the state persistData was last called with
\*   loggedIn   : verifyMasterPassword has returned true in this session
\*   trusted    : the passwords that, in this session, verifyMasterPassword
\*                returned true for, setMasterPassword was called with, or a
\*                migration derived its key from
\*   sessionNo  : the number of this session, the first being 1
\*   migratedIn : the session in which a migration made its last write
\*   original   : the password and state of the legacy dataset, while no call
\*                other than loading has written to it
\*   roundTrip  : the password and state of the last setMasterPassword and
\*                saveData made in one session, while nothing else was written
NoRecord == [known |-> FALSE, password |-> NoPassword, state |-> NoState]
Record(password, state) == [known |-> TRUE, password |-> password, state |-> state]
NewHistory ==
    [ nOps       |-> 0,
      random     |-> 0,
      tampered   |-> FALSE,
      verified   |-> [password |-> NoPassword, result |-> "none"],
      loadedData |-> [state |-> NoState, path |-> "none", sessionNo |-> 0,
                      threw |-> FALSE, intact |-> TRUE],
      saved      |-> "none",
      mutation   |-> NoState,
      loggedIn   |-> FALSE,
      trusted    |-> {},
      sessionNo  |-> 1,
      migratedIn |-> 0,
      setBy      |-> NoPassword,
      original   |-> NoRecord,
      roundTrip  |-> NoRecord ]

\* The whole state of the module as one value.
Vault(d, l, s, h) == [db |-> d, ls |-> l, session |-> s, history |-> h]

\* The vault while the plugin system is looked at: nothing stored, no session.
VaultAtRest ==
    /\ db = NoStore
    /\ ls = NoStore
    /\ session = NewSession
    /\ history = NewHistory

\* migrateKey(key): a value left in localStorage replaces the one in IndexedDB.
MigrateKey(v, key) ==
    IF v.ls[key] # Absent(key)
    THEN [v EXCEPT !.db[key] = v.ls[key], !.ls[key] = Absent(key)]
    ELSE v

\* setMasterPassword(password).
SetMasterPassword(v, password) ==
    LET salt == v.history.random + 1
        key == DeriveKey(password, salt)
        verifier == EncryptData(VerifierText, key, v.history.random + 2)
    IN [v EXCEPT !.session.masterPasswordForMigration = password,
                 !.session.masterCryptoKey = key,
                 !.db[STORAGE_KEY_SALT] = salt,
                 !.db[STORAGE_KEY_PASS_VERIFIER] = verifier,
                 !.ls[STORAGE_KEY_PASS_VERIFIER] = NoValue,
                 !.ls[STORAGE_KEY_SALT] = NoSalt,
                 !.history.random = @ + 2]

\* The decrypted verifier is compared with the constant.
IsCorrect(decrypted) ==
    IF decrypted.ok /\ decrypted.text = VerifierText THEN "true" ELSE "false"

\* verifyMasterPassword(password).
VerifyMasterPassword(v, password) ==
    LET v1 == MigrateKey(MigrateKey(
                  [v EXCEPT !.session.masterPasswordForMigration = password],
                  STORAGE_KEY_PASS_VERIFIER), STORAGE_KEY_SALT)
        salt == v1.db[STORAGE_KEY_SALT]
        verifier == v1.db[STORAGE_KEY_PASS_VERIFIER]
        Return(w, r) == [w EXCEPT !.history.verified = [password |-> password, result |-> r]]
    IN IF verifier = NoValue THEN Return(v1, "false")
       ELSE IF salt # NoSalt
       THEN LET key == DeriveKey(password, salt)
            IN Return([v1 EXCEPT !.session.masterCryptoKey = key],
                      IsCorrect(DecryptData(verifier, key)))
       ELSE Return(v1, IsCorrect(LegacyDecrypt(verifier, password)))

\* A saveData that encrypts with whatever masterCryptoKey holds.
KeyAssumed(s) == TRUE

\* saveData, line 251: the check that a session key is held.
KeyAvailable(s) == s.masterCryptoKey # NoCryptoKey

\* saveData(data) up to the await of crypto.subtle.encrypt: the key check,
\* JSON.stringify, and encryptData with the IV it draws.
SaveDataStart(v, data) ==
    IF ~KeyAvailable(v.session)
    THEN [v EXCEPT !.history.saved = "threw"]
    ELSE [v EXCEPT !.session.saving =
                       Append(@, EncryptData(JSONStringify(data),
                                             v.session.masterCryptoKey,
                                             v.history.random + 1)),
                   !.history.random = @ + 1]

\* The encryption of the i-th saveData in progress resolves and its setToDB
\* puts the ciphertext under STORAGE_KEY_DATA.
SaveDataWrite(v, i) ==
    [v EXCEPT !.db[STORAGE_KEY_DATA] = v.session.saving[i],
              !.session.saving = RemoveAt(@, i),
              !.history.saved = "saved"]

\* saveData(data), awaited to its end with no other call in progress.
SaveData(v, data) ==
    LET w == SaveDataStart(v, data)
    IN IF ~KeyAvailable(v.session) THEN w
       ELSE SaveDataWrite(w, Len(w.session.saving))

\* loadData, lines 264-278: the blob is read, and moved out of localStorage
\* when IndexedDB has none.
LoadStored(v) ==
    IF v.db[STORAGE_KEY_DATA] = NoValue /\ v.ls[STORAGE_KEY_DATA] # NoValue
    THEN [v EXCEPT !.db[STORAGE_KEY_DATA] = v.ls[STORAGE_KEY_DATA],
                   !.ls[STORAGE_KEY_DATA] = NoValue]
    ELSE v

\* Array.isArray(list) ? list : [], for each of the three lists.
Sanitize(rawData) ==
    [f \in DOMAIN rawData |-> IF rawData[f] \in {"empty", "one"} THEN rawData[f] ELSE "empty"]

\* loadData, lines 320-359: what it returns for the parsed rawData.
Validate(rawData) ==
    IF rawData = NullValue THEN EmptyState ELSE Sanitize(rawData)

\* loadData returns.
Returns(v, state) ==
    [v EXCEPT !.history.loadedData.state = state,
              !.session.pc = "idle",
              !.session.rawData = NoState,
              !.session.newSalt = NoSalt,
              !.session.newVerifier = NoValue]

\* A loadData that lets the error of its decryption or parsing out.
LoadErrorPropagates(v) ==
    [Returns(v, NoState) EXCEPT !.history.loadedData.threw = TRUE]

\* loadData, lines 314-317: the catch around decryption, parsing and the
\* migration returns the empty state.
CatchLoadError(v) == Returns(v, EmptyState)

\* A loadData that never takes the modern path.
NeverModern(s) == FALSE

\* loadData decrypts with the session key when there is one.
UsesModernPath(s) == s.masterCryptoKey # NoCryptoKey

\* loadData up to its return or, when it migrates, up to its first write.
LoadDataStart(v) ==
    LET v1 == LoadStored(v)
        encryptedData == v1.db[STORAGE_KEY_DATA]
        password == v1.session.masterPasswordForMigration
        Path(w, p) == [w EXCEPT !.history.loadedData.path = p,
                                !.history.loadedData.sessionNo = w.history.sessionNo,
                                !.history.loadedData.threw = FALSE,
                                !.history.loadedData.intact = encryptedData.intact]
    IN IF encryptedData = NoValue THEN Returns(Path(v1, "none"), EmptyState)
       ELSE IF UsesModernPath(v1.session)
       THEN LET d == DecryptData(encryptedData, v1.session.masterCryptoKey)
                j == JSONParse(d.text)
            IN IF d.ok /\ j.ok THEN Returns(Path(v1, "modern"), Validate(j.value))
               ELSE CatchLoadError(Path(v1, "modern"))
       ELSE LET d == LegacyDecrypt(encryptedData, password)
                j == JSONParse(d.text)
                newSalt == v1.history.random + 1
                newKey == DeriveKey(password, newSalt)
            IN IF ~(d.ok /\ j.ok) THEN CatchLoadError(Path(v1, "legacy"))
               ELSE [Path(v1, "legacy") EXCEPT
                        !.session.rawData = j.value,
                        !.session.masterCryptoKey = newKey,
                        !.session.newSalt = newSalt,
                        !.session.newVerifier =
                            EncryptData(VerifierText, newKey, v1.history.random + 2),
                        !.session.pc = "salt",
                        !.history.random = @ + 2]

\* The next write of the migration: the salt, the verifier, then the blob
\* through saveData, after which loadData validates rawData and returns.
MigrateStep(v) ==
    CASE v.session.pc = "salt" ->
            [v EXCEPT !.db[STORAGE_KEY_SALT] = v.session.newSalt,
                      !.session.pc = "verifier"]
      [] v.session.pc = "verifier" ->
            [v EXCEPT !.db[STORAGE_KEY_PASS_VERIFIER] = v.session.newVerifier,
                      !.session.pc = "blob"]
      [] v.session.pc = "blob" ->
            LET w == SaveData(v, v.session.rawData)
            IN Returns([w EXCEPT !.history.saved = v.history.saved,
                                 !.history.migratedIn = v.history.sessionNo],
                       Validate(v.session.rawData))
      [] OTHER -> v

\* The write the migration is about to make is rejected: the catch of
\* loadData returns the empty state.
MigrateFails(v) == CatchLoadError(v)

\* loadData from its call to its return, every write succeeding.
LoadData(v) == MigrateStep(MigrateStep(MigrateStep(LoadDataStart(v))))

\* The datasets found at startup: none, and the dataset of the legacy scheme
\* (verifier and blob, no salt) in localStorage or in IndexedDB.
LegacyPassword == "abcdabcd"
LegacyStore(rawData) ==
    [NoStore EXCEPT ![STORAGE_KEY_PASS_VERIFIER] = LegacyEncrypt(VerifierText, LegacyPassword),
                    ![STORAGE_KEY_DATA] = LegacyEncrypt(JSONStringify(rawData), LegacyPassword)]
LegacyStates == {FullState, NullValue}

\* --------------------------------------------------------------- actions

Init ==
    /\ storedPlugins \in StoredPluginLists
    /\ plugins = << >>
    /\ loaded = FALSE
    /\ sandboxes = [id \in PluginIds |-> NoSandbox]
    /\ workers = << >>
    /\ chains = << >>
    /\ nEvents = 0
    /\ VaultAtRest

\* setAppData with a new plugin list, and the effect that follows the render.
SetPlugins(pl) ==
    LET r == Effect(pl, sandboxes, workers)
    IN /\ Len(r.workers) <= MaxWorkers
       /\ plugins' = pl
       /\ sandboxes' = r.sandboxes
       /\ workers' = r.workers

\* loadInitialData, once loadData has returned the stored list.
LoadInitialData(stored) ==
    /\ ~loaded
    /\ loaded' = TRUE
    /\ SetPlugins(InjectDefaultPlugin(stored))
    /\ UNCHANGED <<storedPlugins, chains, nEvents>>
    /\ UNCHANGED vaultVars

HasPlugin(id) == \E i \in 1 .. Len(plugins) : plugins[i].id = id

\* handlePluginsUpdate(updatedPlugins): setAppData, then persistData.
HandlePluginsUpdate(updatedPlugins) ==
    /\ nEvents < MaxEvents
    /\ nEvents' = nEvents + 1
    /\ SetPlugins(updatedPlugins)
    /\ storedPlugins' = updatedPlugins
    /\ UNCHANGED <<loaded, chains>>
    /\ UNCHANGED vaultVars

\* PluginManager.handleToggle(pluginId).
HandleToggle(pluginId) ==
    /\ HasPlugin(pluginId)
    /\ HandlePluginsUpdate(
           [i \in 1 .. Len(plugins) |->
               IF plugins[i].id = pluginId
               THEN [plugins[i] EXCEPT !.enabled = ~@]
               ELSE plugins[i]])

\* PluginManager.handleDelete(pluginId), confirmed by the user.
HandleDelete(pluginId) ==
    /\ HasPlugin(pluginId)
    /\ HandlePluginsUpdate(SelectSeq(plugins, LAMBDA p : p.id # pluginId))

\* triggerPluginHook(hookName, data), up to its first await or its return.
TriggerPluginHook(hookName, data) ==
    /\ loaded
    /\ nEvents < MaxEvents
    /\ nEvents' = nEvents + 1
    /\ LET r == ChainLoop(NewChain(hookName, data, plugins, sandboxes), 1,
                          sandboxes, workers)
       IN /\ chains' = Append(chains, r.chain)
          /\ workers' = r.workers
    /\ UNCHANGED <<storedPlugins, plugins, loaded, sandboxes>>
    /\ UNCHANGED vaultVars

\* The worker of sandbox w handles the next message posted to it.
WorkerStep(w) ==
    /\ ~workers[w].terminated
    /\ workers[w].inbox # << >>
    /\ workers' = [workers EXCEPT ![w] =
           WorkerOnMessage([@ EXCEPT !.inbox = Tail(@)], Head(workers[w].inbox))]
    /\ UNCHANGED <<storedPlugins, plugins, loaded, sandboxes, chains, nEvents>>
    /\ UNCHANGED vaultVars

\* The host handles the i-th message sandbox w's worker has posted: onmessage
\* and loadListener run, then the callers their promises were awaited by.
Deliver(w, i) ==
    /\ ~workers[w].terminated
    /\ i \in 1 .. Len(workers[w].outbox)
    /\ LET sb == workers[w]
           m  == sb.outbox[i]
           handled == LoadListener(OnMessage([sb EXCEPT !.outbox = RemoveAt(@, i)], m), m)
           sbx == IF sb.loadListener /\ LoadResolves(m)
                  THEN EffectAfterLoad(sandboxes, w, sb)
                  ELSE sandboxes
           r == ResumeChains(1, chains, sbx, [workers EXCEPT ![w] = handled])
       IN /\ sandboxes' = sbx
          /\ chains' = r.chains
          /\ workers' = r.workers
    /\ UNCHANGED <<storedPlugins, plugins, loaded, nEvents>>
    /\ UNCHANGED vaultVars

\* Messages between one worker and the host arrive in the order posted.
DeliverNext(w) == Deliver(w, 1)

Next ==
    \/ LoadInitialData(storedPlugins)
    \/ \E id \in PluginIds : HandleToggle(id)
    \/ \E id \in PluginIds : HandleDelete(id)
    \/ \E h \in AppHookNames, c \in InitialContents :
          TriggerPluginHook(h, InitialPayload(c))
    \/ \E w \in 1 .. Len(workers) : WorkerStep(w)
    \/ \E w \in 1 .. Len(workers) : DeliverNext(w)

Spec == Init /\ [][Next]_vars

\* A worker that has a message handles it; a message posted to the host is
\* handled. The user's actions are under no obligation to happen.
Fairness ==
    /\ \A w \in 1 .. MaxWorkers :
          WF_vars(w <= Len(workers) /\ WorkerStep(w))
    /\ \A w \in 1 .. MaxWorkers :
          WF_vars(w <= Len(workers) /\ DeliverNext(w))

FairSpec == Spec /\ Fairness

\* ------------------------------------- MainLayout with PluginManager's form

\* The code a user types into the form of PluginManager.
FormCodes == {"upper", "double"}

\* The ids crypto.randomUUID can return: those no plugin has or has had, in
\* the list, in storage, in a sandbox or in a hook call.
FreshIds ==
    {id \in PluginIds \ {ImagePluginId} :
        /\ ~\E i \in 1 .. Len(plugins) : plugins[i].id = id
        /\ ~\E i \in 1 .. Len(storedPlugins) : storedPlugins[i].id = id
        /\ ~\E w \in 1 .. Len(workers) : workers[w].effectFor = id
        /\ ~\E k \in 1 .. Len(chains) : \E n \in 1 .. Len(chains[k].enabledPlugins) :
                chains[k].enabledPlugins[n] = id}

\* PluginManager.handleSave with editingPlugin set: the form replaces the
\* fields of the plugin, its code among them.
HandleSaveEdit(pluginId, code) ==
    /\ HasPlugin(pluginId)
    /\ \E i \in 1 .. Len(plugins) : plugins[i].id = pluginId /\ plugins[i].code # code
    /\ HandlePluginsUpdate(
           [i \in 1 .. Len(plugins) |->
               IF plugins[i].id = pluginId
               THEN [plugins[i] EXCEPT !.code = code]
               ELSE plugins[i]])

\* PluginManager.handleSave while creating: a new plugin, disabled, is put at
\* the end of the list.
HandleSaveNew(id, code) ==
    /\ id \in FreshIds
    /\ HandlePluginsUpdate(Append(plugins, Plugin(id, FALSE, code, NoSettings)))

ManagerNext ==
    \/ Next
    \/ \E id \in PluginIds, code \in FormCodes : HandleSaveEdit(id, code)
    \/ \E id \in PluginIds, code \in FormCodes : HandleSaveNew(id, code)

ManagerSpec == Init /\ [][ManagerNext]_vars

\* ---------------------------------------- one PluginSandbox, used directly

\* After new PluginSandbox() and loadCode(code).
SbxInit ==
    /\ storedPlugins = << >>
    /\ plugins = << >>
    /\ loaded = FALSE
    /\ sandboxes = [id \in PluginIds |-> NoSandbox]
    /\ \E code \in PluginCodes : workers = << LoadCode(Constructor, code) >>
    /\ chains = << >>
    /\ nEvents = 0
    /\ VaultAtRest

SbxPayloads ==
    {InitialPayload(c) : c \in InitialContents}
        \cup {[content |-> c, settings |-> KeySettings] : c \in InitialContents}

\* sandbox.executeHook(hookName, data) called by a client.
SbxExecuteHook(hookName, data) ==
    /\ workers[1].ticketCounter < MaxHookCalls
    /\ workers' = [workers EXCEPT ![1] = ExecuteHook(@, hookName, data)]
    /\ UNCHANGED <<storedPlugins, plugins, loaded, sandboxes, chains, nEvents>>
    /\ UNCHANGED vaultVars

\* sandbox.terminate() called by a client.
SbxTerminate ==
    /\ ~workers[1].terminated
    /\ workers' = [workers EXCEPT ![1] = Terminate(@)]
    /\ UNCHANGED <<storedPlugins, plugins, loaded, sandboxes, chains, nEvents>>
    /\ UNCHANGED vaultVars

\* The host handles any one of the messages the worker has posted.
DeliverAny(w) == \E i \in 1 .. Len(workers[w].outbox) : Deliver(w, i)

SbxNext ==
    \/ \E h \in HookNames, d \in SbxPayloads : SbxExecuteHook(h, d)
    \/ SbxTerminate
    \/ WorkerStep(1)
    \/ DeliverAny(1)

SandboxSpec == SbxInit /\ [][SbxNext]_vars

\* ------------------------------------------- secureStorage.ts, used directly

Cur == Vault(db, ls, session, history)

\* The state after a step that leaves the vault as v.
Becomes(v) ==
    /\ db' = v.db
    /\ ls' = v.ls
    /\ session' = v.session
    /\ history' = v.history
    /\ UNCHANGED pluginVars

\* A call can be made: no loadData is running, and the bound allows it.
CanCall == session.pc = "idle" /\ history.nOps < MaxVaultOps

VaultInit ==
    /\ storedPlugins = << >>
    /\ plugins = << >>
    /\ loaded = FALSE
    /\ sandboxes = [id \in PluginIds |-> NoSandbox]
    /\ workers = << >>
    /\ chains = << >>
    /\ nEvents = 0
    /\ session = NewSession
    /\ \/ db = NoStore /\ ls = NoStore /\ history = NewHistory
       \/ \E rawData \in LegacyStates :
            /\ \/ db = LegacyStore(rawData) /\ ls = NoStore
               \/ db = NoStore /\ ls = LegacyStore(rawData)
            /\ history = [NewHistory EXCEPT !.original =
                             IF rawData = NullValue THEN NoRecord
                             ELSE Record(LegacyPassword, rawData)]

\* The user sets the password (AuthScreen.handleSubmit).
CallSetMasterPassword(password) ==
    /\ CanCall
    /\ Becomes([SetMasterPassword(Cur, password) EXCEPT
                   !.history.nOps = @ + 1,
                   !.history.trusted = @ \cup {password},
                   !.history.setBy = password,
                   !.history.original = NoRecord,
                   !.history.roundTrip = NoRecord])

\* The user logs in (App.handleLogin).
CallVerifyMasterPassword(password) ==
    /\ CanCall
    /\ LET v == VerifyMasterPassword(Cur, password)
       IN Becomes([v EXCEPT !.history.nOps = @ + 1,
                            !.history.setBy = NoPassword,
                            !.history.loggedIn = @ \/ v.history.verified.result = "true",
                            !.history.trusted =
                                IF v.history.verified.result = "true"
                                THEN @ \cup {password} ELSE @])

\* persistData(data).
CallSaveData(data) ==
    /\ CanCall
    /\ LET v == SaveData(Cur, data)
           written == v.history.saved = "saved"
       IN Becomes([v EXCEPT !.history.nOps = @ + 1,
                            !.history.original = IF written THEN NoRecord ELSE @,
                            !.history.roundTrip =
                                IF ~written THEN @
                                ELSE IF history.setBy # NoPassword
                                THEN Record(history.setBy, data)
                                ELSE NoRecord])

\* loadInitialData calls loadData.
CallLoadData ==
    /\ CanCall
    /\ LET v == LoadDataStart(Cur)
       IN Becomes([v EXCEPT !.history.nOps = @ + 1,
                            !.history.trusted =
                                IF v.session.pc # "idle"
                                THEN @ \cup {v.session.masterPasswordForMigration}
                                ELSE @])

\* The write the migration is waiting for succeeds.
MigrationStep ==
    /\ session.pc # "idle"
    /\ Becomes(MigrateStep(Cur))

\* The write the migration is waiting for fails.
MigrationFails ==
    /\ session.pc # "idle"
    /\ Becomes(MigrateFails(Cur))

\* The page is closed or reloaded: the module's variables start afresh.
Reload ==
    /\ session # NewSession
    /\ Becomes([Cur EXCEPT !.session = NewSession,
                           !.history.loggedIn = FALSE,
                           !.history.trusted = {},
                           !.history.sessionNo = @ + 1,
                           !.history.setBy = NoPassword])

\* Bytes of a stored ciphertext are changed.
Tamper(key) ==
    /\ ~history.tampered
    /\ db[key] # NoValue
    /\ Becomes([Cur EXCEPT !.db[key].intact = FALSE,
                           !.history.tampered = TRUE,
                           !.history.setBy = NoPassword,
                           !.history.original = NoRecord,
                           !.history.roundTrip = NoRecord])

VaultNext ==
    \/ \E p \in Passwords : CallSetMasterPassword(p)
    \/ \E p \in Passwords : CallVerifyMasterPassword(p)
    \/ \E s \in AppStates : CallSaveData(s)
    \/ CallLoadData
    \/ MigrationStep
    \/ MigrationFails
    \/ Reload
    \/ \E k \in {STORAGE_KEY_PASS_VERIFIER, STORAGE_KEY_DATA} : Tamper(k)

VaultSpec == VaultInit /\ [][VaultNext]_vars

\* ----------------------------- MainLayout's handlers calling persistData

\* Mutation handlers run in one behaviour of SaveSpec.
MaxSaves == 3

\* After the password was set and MainLayout has mounted.
SaveInit ==
    /\ storedPlugins = << >>
    /\ plugins = << >>
    /\ loaded = FALSE
    /\ sandboxes = [id \in PluginIds |-> NoSandbox]
    /\ workers = << >>
    /\ chains = << >>
    /\ nEvents = 0
    /\ \E p \in Passwords :
          LET v == SetMasterPassword(Vault(NoStore, NoStore, NewSession, NewHistory), p)
          IN /\ db = v.db
             /\ ls = v.ls
             /\ session = v.session
             /\ history = [v.history EXCEPT !.trusted = {p}]

\* A mutation handler (handleSessionUpdate, handlePluginsUpdate, ...):
\* setAppData(updatedData), then persistData(updatedData) without await.
PersistData(updatedData) ==
    /\ history.nOps < MaxSaves
    /\ Becomes([SaveDataStart(Cur, updatedData) EXCEPT
                   !.history.nOps = @ + 1,
                   !.history.mutation = updatedData])

\* The encryption of one of the saves in progress resolves, and it writes.
SaveCompletes(i) ==
    /\ i \in 1 .. Len(session.saving)
    /\ Becomes(SaveDataWrite(Cur, i))

SaveNext ==
    \/ \E s \in AppStates : PersistData(s)
    \/ \E i \in 1 .. MaxSaves : SaveCompletes(i)

SaveSpec == SaveInit /\ [][SaveNext]_vars

\* ================================================================ claims

Workers == 1 .. Len(workers)
Tickets(w) == 0 .. (Len(workers[w].promises) - 1)
PromiseOf(w, t) == workers[w].promises[t + 1]

\* C1: terminate() rejects every promise that is pending when it is called and
\* leaves the pending-ticket table empty.
C1_TerminateRejectsPending ==
    [][\A w \in Workers :
          (~workers[w].terminated /\ workers'[w].terminated) =>
              /\ workers'[w].pendingHooks = {}
              /\ \A t \in workers[w].pendingHooks :
                    workers'[w].promises[t + 1].state = "rejected"]_vars

\* C2: an executeHook call made after terminate() rejects at once and leaves
\* no pending entry behind.
C2_ExecuteHookAfterTerminateRejects ==
    [][\A w \in Workers :
          (workers[w].terminated /\ workers'[w].ticketCounter > workers[w].ticketCounter) =>
              /\ workers'[w].promises[workers[w].ticketCounter + 1].state = "rejected"
              /\ workers[w].ticketCounter \notin workers'[w].pendingHooks]_vars

\* What the handler registered as `hook` returns for payload `data`.
HandlerResult(hook, data) ==
    LET replies == RunHook(hook, ExecuteHookMsg("", data, 0))
    IN replies[Len(replies)]

\* C3: whatever order the responses arrive in, a promise changes only when a
\* HOOK_RESULT or HOOK_ERROR carrying its own ticket is handled, it is then
\* settled with that message's result; a response whose ticket is pending
\* settles that ticket's promise and removes that entry alone; and a settled
\* promise holds the outcome of the handler for the payload of its own call.
C3_TicketIsolation ==
    /\ [][\A w \in Workers : \A t \in Tickets(w) :
             workers'[w].promises[t + 1] # workers[w].promises[t + 1] =>
                 \E i \in 1 .. Len(workers[w].outbox) :
                     LET m == workers[w].outbox[i]
                     IN /\ m.ticket = t
                        /\ m.type \in {"HOOK_RESULT", "HOOK_ERROR"}
                        /\ workers'[w].outbox = RemoveAt(workers[w].outbox, i)
                        /\ workers'[w].promises[t + 1].state =
                              (IF m.type = "HOOK_RESULT" THEN "resolved" ELSE "rejected")
                        /\ workers'[w].promises[t + 1].value = m.data]_vars
    /\ [][\A w \in Workers : \A i \in 1 .. Len(workers[w].outbox) :
             LET m == workers[w].outbox[i]
             IN (/\ ~workers'[w].terminated
                 /\ workers'[w].outbox = RemoveAt(workers[w].outbox, i)
                 /\ m.type \in {"HOOK_RESULT", "HOOK_ERROR"}
                 /\ m.ticket \in workers[w].pendingHooks) =>
                    /\ workers'[w].promises[m.ticket + 1].state # "pending"
                    /\ workers'[w].pendingHooks = workers[w].pendingHooks \ {m.ticket}]_vars
    /\ [](\A w \in Workers : \A t \in Tickets(w) :
             LET p == PromiseOf(w, t)
                 r == HandlerResult(Lookup(workers[w].userHooks, p.hookName), p.data)
             IN /\ p.state = "resolved" => r.type = "HOOK_RESULT" /\ p.value = r.data
                /\ p.state = "rejected" => r.type = "HOOK_ERROR")

\* C3 witness: two calls with different payloads were pending together and the
\* response to the second was handled first.
C3_Witness ==
    \E w \in Workers :
        /\ Len(workers[w].promises) >= 2
        /\ PromiseOf(w, 0).state = "pending"
        /\ 0 \in workers[w].pendingHooks
        /\ PromiseOf(w, 1).state = "resolved"
        /\ PromiseOf(w, 0).data # PromiseOf(w, 1).data
        /\ \E i \in 1 .. Len(workers[w].outbox) : workers[w].outbox[i].ticket = 0

\* The sandboxes constructed for plugin id whose worker has not been terminated.
LiveWorkers(id) ==
    {w \in Workers : workers[w].effectFor = id /\ ~workers[w].terminated}

\* C4: at most one worker that has not been terminated exists per plugin id,
\* counting the workers still loading and those whose load failed.
C4_OneLiveWorkerPerPlugin ==
    \A id \in PluginIds : Cardinality(LiveWorkers(id)) <= 1

IsEnabled(id) == \E i \in 1 .. Len(plugins) : plugins[i].id = id /\ plugins[i].enabled

\* C5: while a plugin is disabled or not in the list, the sandboxes map has no
\* entry for it and no worker constructed for it is alive.
C5_DisabledPluginHasNoSandbox ==
    \A id \in PluginIds :
        ~IsEnabled(id) => sandboxes[id] = NoSandbox /\ LiveWorkers(id) = {}

\* The payload after the first n calls of chain c: the handler of each call
\* that resolved applied to the payload before it, in the order of the calls;
\* a call that rejected leaves the payload as it was.
RECURSIVE PayloadAfter(_, _)
PayloadAfter(c, n) ==
    IF n = 0 THEN c.start
    ELSE LET e == c.invoked[n]
             before == PayloadAfter(c, n - 1)
         IN IF PromiseOf(e.w, e.ticket).state = "resolved"
            THEN HandlerResult(Lookup(workers[e.w].userHooks, c.hookName), before).data
            ELSE before

\* The calls of chain c that have been awaited to their end.
Completed(c) == IF c.pc = "await" THEN Len(c.invoked) - 1 ELSE Len(c.invoked)
\* C6: a rejected executeHook leaves the working payload as it was before the
\* call and the chain goes on; the payload is at every point the result of the
\* calls that resolved, applied in order, and the call itself never rejects.
C6_FaultIsolation ==
    \A k \in 1 .. Len(chains) :
        /\ chains[k].pc # "rejected"
        /\ chains[k].processedData = PayloadAfter(chains[k], Completed(chains[k]))

\* C6 witness: a call has returned after a plugin's handler resolved, the next
\* plugin's handler threw and the handler of the plugin after it resolved.
C6_Witness ==
    \E k \in 1 .. Len(chains) :
        LET c == chains[k]
        IN /\ c.pc = "done"
           /\ \E n \in 2 .. (Len(c.invoked) - 1) :
                 /\ PromiseOf(c.invoked[n - 1].w, c.invoked[n - 1].ticket).state = "resolved"
                 /\ PromiseOf(c.invoked[n].w, c.invoked[n].ticket).state = "rejected"
                 /\ PromiseOf(c.invoked[n + 1].w, c.invoked[n + 1].ticket).state = "resolved"
                 /\ workers[c.invoked[n + 1].w].userHooks[c.hookName] # "none"
                 /\ c.processedData # PayloadAfter(c, n - 1)

\* C7: every triggerPluginHook call eventually returns.
C7_TriggerReturns ==
    \A k \in 1 .. MaxEvents :
        (k <= Len(chains)) ~> (k <= Len(chains) /\ chains[k].pc = "done")

\* C8: no message posted into a worker carries an API key.
C8_NoKeyInWorkerMessages ==
    \A w \in Workers : \A i \in 1 .. Len(workers[w].inbox) :
        workers[w].inbox[i].data.settings.apiKey = NoKey

InvokedIds(c) == [n \in 1 .. Len(c.invoked) |-> c.invoked[n].id]

\* C9: the plugins a call invokes are the enabled plugins that had a sandbox
\* when the call started, whatever happens to the list or the map meanwhile.
C9_InvokedSetFixedAtStart ==
    \A k \in 1 .. Len(chains) :
        LET c == chains[k]
        IN /\ Len(c.invoked) <= Len(c.planned)
           /\ InvokedIds(c) = SubSeq(c.planned, 1, Len(c.invoked))
           /\ c.pc = "done" => InvokedIds(c) = c.planned

\* C10: handling a message whose kind is not HOOK_RESULT, HOOK_ERROR or LOG
\* removes no pending entry and settles no promise.
C10_UnknownKindDropped ==
    [][\A w \in Workers :
          (/\ workers[w].outbox # << >>
           /\ ~workers'[w].terminated
           /\ workers'[w].outbox = Tail(workers[w].outbox)
           /\ Head(workers[w].outbox).type \notin {"HOOK_RESULT", "HOOK_ERROR", "LOG"}) =>
              /\ workers'[w].pendingHooks = workers[w].pendingHooks
              /\ workers'[w].promises = workers[w].promises]_vars

\* The handlers that throw when they are called.
ThrowingHooks == {"throw", "thrownull"}

\* C11: when the worker runs a handler that throws for the EXECUTE_HOOK of
\* ticket t, it posts one HOOK_ERROR carrying t, keeps running and keeps its
\* registrations, and no promise changes; when the host then handles that
\* HOOK_ERROR, the promise of t is rejected and every other promise and every
\* other pending entry is as it was.
C11_ThrowRejectsOnlyItsTicket ==
    /\ [][\A w \in Workers :
             (/\ workers[w].inbox # << >>
              /\ ~workers'[w].terminated
              /\ workers'[w].inbox = Tail(workers[w].inbox)
              /\ Head(workers[w].inbox).type = "EXECUTE_HOOK"
              /\ Lookup(workers[w].userHooks, Head(workers[w].inbox).hookName)
                    \in ThrowingHooks) =>
                 /\ workers'[w].outbox =
                        Append(workers[w].outbox,
                               Reply("HOOK_ERROR", Head(workers[w].inbox).ticket, NoPayload))
                 /\ workers'[w].userHooks = workers[w].userHooks
                 /\ workers'[w].promises = workers[w].promises
                 /\ workers'[w].pendingHooks = workers[w].pendingHooks]_vars
    /\ [][\A w \in Workers : \A i \in 1 .. Len(workers[w].outbox) :
             LET m == workers[w].outbox[i]
             IN (/\ ~workers'[w].terminated
                 /\ workers'[w].outbox = RemoveAt(workers[w].outbox, i)
                 /\ m.type = "HOOK_ERROR"
                 /\ m.ticket \in workers[w].pendingHooks) =>
                    /\ workers'[w].promises[m.ticket + 1].state = "rejected"
                    /\ \A t \in Tickets(w) \ {m.ticket} :
                          workers'[w].promises[t + 1] = workers[w].promises[t + 1]
                    /\ workers'[w].pendingHooks = workers[w].pendingHooks \ {m.ticket}]_vars

\* The calls of chain c follow the order of the enabled plugins of the list,
\* no plugin being called twice.
InListOrder(c) ==
    \E f \in [1 .. Len(c.invoked) -> 1 .. Len(c.enabledPlugins)] :
        /\ \A n \in 1 .. Len(c.invoked) : c.enabledPlugins[f[n]] = c.invoked[n].id
        /\ \A n \in 1 .. (Len(c.invoked) - 1) : f[n] < f[n + 1]

\* C12: a triggerPluginHook call invokes executeHook on enabled plugins in the
\* order of the list, each at most once; a call is issued only after the one
\* before it has settled, with the payload the calls before it left; and two
\* calls that have returned, made for the same hook with the same payload, the
\* same enabled plugins and the same sandboxes alive when they started, have
\* the same final payload.
C12_OrderedSequentialDeterministic ==
    /\ \A k \in 1 .. Len(chains) :
          LET c == chains[k]
          IN /\ InListOrder(c)
             /\ \A n \in 1 .. Len(c.invoked) :
                   /\ n < Len(c.invoked) =>
                          PromiseOf(c.invoked[n].w, c.invoked[n].ticket).state # "pending"
                   /\ PromiseOf(c.invoked[n].w, c.invoked[n].ticket).data =
                          PayloadAfter(c, n - 1)
                   /\ PromiseOf(c.invoked[n].w, c.invoked[n].ticket).hookName = c.hookName
    /\ \A j, k \in 1 .. Len(chains) :
          (/\ chains[j].pc = "done" /\ chains[k].pc = "done"
           /\ chains[j].hookName = chains[k].hookName
           /\ chains[j].initial = chains[k].initial
           /\ chains[j].start = chains[k].start
           /\ chains[j].enabledPlugins = chains[k].enabledPlugins
           /\ chains[j].planned = chains[k].planned) =>
              chains[j].processedData = chains[k].processedData

\* The plugins of the list whose code throws when it is loaded.
FailsToLoad(id) ==
    \E i \in 1 .. Len(plugins) : plugins[i].id = id /\ LoadThrows(plugins[i].code)

\* C13: when loadCode rejects, the plugin list, the stored list and the
\* sandboxes map are as they were; a plugin whose code throws when loaded never
\* has an entry in the sandboxes map and no triggerPluginHook call invokes it.
C13_LoadErrorLeavesPluginInert ==
    /\ [][\A w \in Workers :
             (/\ workers[w].outbox # << >>
              /\ ~workers'[w].terminated
              /\ workers'[w].outbox = Tail(workers[w].outbox)
              /\ workers[w].loadListener
              /\ Head(workers[w].outbox).type = "LOAD_ERROR") =>
                 /\ plugins' = plugins
                 /\ storedPlugins' = storedPlugins
                 /\ sandboxes' = sandboxes
                 /\ ~workers'[w].loadListener]_vars
    /\ [](\A id \in PluginIds :
             FailsToLoad(id) =>
                 /\ sandboxes[id] = NoSandbox
                 /\ \A k \in 1 .. Len(chains) : \A n \in 1 .. Len(chains[k].invoked) :
                        chains[k].invoked[n].id # id)

\* C13 witness: the loadCode of an enabled plugin has rejected, the plugin is
\* still enabled in the list and in storage, and a triggerPluginHook call made
\* with the plugin enabled has returned without invoking it.
C13_Witness ==
    \E id \in PluginIds : \E w \in Workers :
        /\ FailsToLoad(id) /\ IsEnabled(id)
        /\ \E i \in 1 .. Len(storedPlugins) :
              storedPlugins[i].id = id /\ storedPlugins[i].enabled
        /\ workers[w].effectFor = id
        /\ ~workers[w].loadListener /\ ~workers[w].terminated
        /\ workers[w].inbox = << >> /\ workers[w].outbox = << >>
        /\ \E k \in 1 .. Len(chains) :
              /\ chains[k].pc = "done"
              /\ \E n \in 1 .. Len(chains[k].enabledPlugins) : chains[k].enabledPlugins[n] = id
              /\ chains[k].invoked = << >>

\* C14: a call of executeHook for a hook name under which the plugin has
\* registered no handler does not reject, and when it settles it resolves
\* with the payload it was called with.
C14_NoHandlerPassThrough ==
    \A w \in Workers : \A t \in Tickets(w) :
        LET p == PromiseOf(w, t)
        IN (workers[w].userHooks[p.hookName] = "none" /\ p.state # "pending") =>
               p.state = "resolved" /\ p.value = p.data

Startup(v, password) ==
    LoadData(VerifyMasterPassword([v EXCEPT !.session = NewSession], password))
LoginAtStartup(v, password) ==
    VerifyMasterPassword([v EXCEPT !.session = NewSession], password).history.verified.result

\* C16: as long as only loading has written to the legacy dataset, whether
\* its migration has not started, has stopped after some of its writes or
\* has finished, the next startup with the dataset's password logs in and
\* loadData returns the dataset's state.
C16_MigrationRecoverable ==
    history.original.known =>
        /\ LoginAtStartup(Cur, history.original.password) = "true"
        /\ Startup(Cur, history.original.password).history.loadedData.state
              = history.original.state

\* The check of lines 320-323: rawData is an object and not null.
IsObject(rawData) == rawData # NullValue

\* C17: the migration writes a new salt, verifier or blob only when the
\* legacy blob was decrypted and its content is an application state; a
\* loadData whose legacy decryption fails leaves the stored salt, verifier
\* and blob as they were.
C17_MigrationWritesOnlyValidated ==
    /\ [][MigrationStep => IsObject(session.rawData)]_vars
    /\ [][(/\ CallLoadData
           /\ history'.loadedData.path = "legacy"
           /\ session'.pc = "idle") =>
              /\ db'[STORAGE_KEY_SALT] = db[STORAGE_KEY_SALT]
              /\ db'[STORAGE_KEY_PASS_VERIFIER] = db[STORAGE_KEY_PASS_VERIFIER]
              /\ db'[STORAGE_KEY_DATA] = LoadStored(Cur).db[STORAGE_KEY_DATA]]_vars

\* C18: with a salt in storage, a loadData called after a login decrypts with
\* the session key only: it does not take the legacy path, starts no
\* migration, and leaves salt, verifier and blob as stored.
C18_MigratedLoadsModernOnly ==
    [][(/\ CallLoadData
        /\ db[STORAGE_KEY_SALT] # NoSalt
        /\ history.loggedIn) =>
           /\ history'.loadedData.path # "legacy"
           /\ session'.pc = "idle"
           /\ session'.masterCryptoKey = session.masterCryptoKey
           /\ db'[STORAGE_KEY_SALT] = db[STORAGE_KEY_SALT]
           /\ db'[STORAGE_KEY_PASS_VERIFIER] = db[STORAGE_KEY_PASS_VERIFIER]
           /\ db'[STORAGE_KEY_DATA] = LoadStored(Cur).db[STORAGE_KEY_DATA]]_vars

\* C18 witness: the legacy dataset was migrated by loadData, and in a later
\* session a login and a loadData have returned its state by the modern path.
C18_Witness ==
    /\ history.original.known
    /\ history.migratedIn # 0
    /\ history.loadedData.sessionNo > history.migratedIn
    /\ db[STORAGE_KEY_SALT] # NoSalt
    /\ db[STORAGE_KEY_DATA].scheme = "gcm"
    /\ history.loggedIn
    /\ session.pc = "idle"
    /\ history.loadedData.state = history.original.state
    /\ history.loadedData.path = "modern"

\* C19: after setMasterPassword(p) and saveData(s) in one session, a new
\* session logs in with p and its loadData returns s.
C19_VaultRoundTrip ==
    history.roundTrip.known =>
        /\ LoginAtStartup(Cur, history.roundTrip.password) = "true"
        /\ Startup(Cur, history.roundTrip.password).history.loadedData.state
              = history.roundTrip.state

\* The password a stored verifier was made with.
VerifierPassword(verifier) ==
    IF verifier.scheme = "xor" THEN LegacyPassword ELSE verifier.key.password

\* C20: verifyMasterPassword(q) returns false when q is not the password the
\* stored verifier was made with, and when the stored verifier has been
\* changed, with a salt in storage and without.
C20_WrongPasswordIsFalse ==
    [][\A q \in Passwords :
          CallVerifyMasterPassword(q) =>
              LET verifier == db'[STORAGE_KEY_PASS_VERIFIER]
              IN (/\ verifier # NoValue
                  /\ q # VerifierPassword(verifier) \/ ~verifier.intact) =>
                     history'.verified.result = "false"]_vars

\* The blob loadData reads: the one in IndexedDB, or else the one left in
\* localStorage.
BlobRead == LoadStored(Cur).db[STORAGE_KEY_DATA]

\* C21: a loadData that finds a blob whose bytes were changed, so that its
\* decryption or its parsing fails, returns the empty state, does not throw,
\* starts no migration and writes nothing.
C21_CorruptBlobLoadsEmpty ==
    [][(CallLoadData /\ BlobRead # NoValue /\ ~BlobRead.intact) =>
           /\ ~history'.loadedData.threw
           /\ history'.loadedData.state = EmptyState
           /\ session'.pc = "idle"
           /\ db' = LoadStored(Cur).db]_vars

\* C21 witness: after a login with the right password, loadData has read a
\* changed blob in this session and returned the empty state.
C21_Witness ==
    /\ history.loggedIn
    /\ history.loadedData.sessionNo = history.sessionNo
    /\ history.loadedData.path \in {"modern", "legacy"}
    /\ ~history.loadedData.intact
    /\ ~history.loadedData.threw
    /\ history.loadedData.state = EmptyState
    /\ session.pc = "idle"

\* C22: saveData called while masterCryptoKey holds no key throws, and
\* IndexedDB and localStorage are as they were.
C22_SaveWithoutKeyThrows ==
    [][\A s \in AppStates :
          (CallSaveData(s) /\ session.masterCryptoKey = NoCryptoKey) =>
              /\ history'.saved = "threw"
              /\ db' = db
              /\ ls' = ls
              /\ session'.masterCryptoKey = NoCryptoKey]_vars

\* C22 witness: after a login by the legacy scheme, which leaves no session
\* key, saveData has thrown and the legacy blob is still the stored one.
C22_Witness ==
    /\ history.sessionNo = 1
    /\ history.loggedIn
    /\ session.masterCryptoKey = NoCryptoKey
    /\ history.saved = "threw"
    /\ history.original.known
    /\ db[STORAGE_KEY_DATA].scheme = "xor"

\* A stored value is the output of encryptData or of the legacy cipher.
IsCiphertext(value) == value.scheme \in {"gcm", "xor"}

\* A store holds the three keys and nothing else; the salt is absent or one
\* of the random values drawn, the verifier is absent or a ciphertext of the
\* constant, and the blob is absent or a ciphertext of a JSON text.
AtRest(store) ==
    /\ DOMAIN store = {STORAGE_KEY_SALT, STORAGE_KEY_PASS_VERIFIER, STORAGE_KEY_DATA}
    /\ store[STORAGE_KEY_SALT] \in 0 .. history.random
    /\ \/ store[STORAGE_KEY_PASS_VERIFIER] = NoValue
       \/ /\ IsCiphertext(store[STORAGE_KEY_PASS_VERIFIER])
          /\ store[STORAGE_KEY_PASS_VERIFIER].plain = VerifierText
    /\ \/ store[STORAGE_KEY_DATA] = NoValue
       \/ /\ IsCiphertext(store[STORAGE_KEY_DATA])
          /\ store[STORAGE_KEY_DATA].plain.kind = "json"

\* C23: in every reachable state IndexedDB and localStorage hold nothing but
\* the salt, the verifier ciphertext and the data ciphertext: no password,
\* no derived key and no application state in the clear.
C23_OnlyCiphertextAtRest == AtRest(db) /\ AtRest(ls)

\* C23 witness: a password was set and data saved under it, and after a
\* reload a login and a loadData have run; salt, verifier and blob are stored.
C23_Witness ==
    /\ history.sessionNo > 1
    /\ history.loggedIn
    /\ history.saved = "saved"
    /\ history.loadedData.sessionNo = history.sessionNo
    /\ history.loadedData.path = "modern"
    /\ db[STORAGE_KEY_SALT] # NoSalt
    /\ db[STORAGE_KEY_PASS_VERIFIER].scheme = "gcm"
    /\ db[STORAGE_KEY_DATA].scheme = "gcm"

\* ------------------------------------------------- sandbox claims, continued

\* The callback of the last call of nexus.hooks.register for name h in worker w.
LastRegistered(w, h) ==
    workers[w].registerCalls[h][Len(workers[w].registerCalls[h])]

\* C24: once register has been called twice for a name in a worker, the name
\* holds the second callback, and the worker answers every EXECUTE_HOOK for
\* that name with what the second callback posts, and with nothing else.
C24_LastRegistrationWins ==
    /\ [](\A w \in Workers : \A h \in HookNames :
             Len(workers[w].registerCalls[h]) >= 2 =>
                 workers[w].userHooks[h] = LastRegistered(w, h))
    /\ [][\A w \in Workers :
             (/\ workers[w].inbox # << >>
              /\ ~workers'[w].terminated
              /\ workers'[w].inbox = Tail(workers[w].inbox)
              /\ Head(workers[w].inbox).type = "EXECUTE_HOOK"
              /\ Len(workers[w].registerCalls[Head(workers[w].inbox).hookName]) >= 2) =>
                 workers'[w].outbox =
                     workers[w].outbox
                       \o RunHook(LastRegistered(w, Head(workers[w].inbox).hookName),
                                  Head(workers[w].inbox))]_vars

\* C24 witness: a worker's code registered a callback that throws and then
\* one that returns under the same name, and two calls of executeHook for
\* that name have both resolved with what the second callback returns.
C24_Witness ==
    \E w \in Workers : \E h \in HookNames :
        /\ Len(workers[w].registerCalls[h]) = 2
        /\ workers[w].registerCalls[h][1] = "throw"
        /\ workers[w].registerCalls[h][2] = "inc"
        /\ Len(workers[w].promises) = 2
        /\ \A t \in Tickets(w) :
              /\ PromiseOf(w, t).hookName = h
              /\ PromiseOf(w, t).state = "resolved"
              /\ PromiseOf(w, t).value.content = Inc(PromiseOf(w, t).data.content)

\* Message i of worker w's outbox is the one the host handles in this step.
Handles(w, i) ==
    /\ i \in 1 .. Len(workers[w].outbox)
    /\ ~workers'[w].terminated
    /\ workers'[w].outbox = RemoveAt(workers[w].outbox, i)

IsResponse(m) == m.type \in {"HOOK_RESULT", "HOOK_ERROR"}

\* C25: executeHook adds the entry of its ticket; an entry is removed only
\* when a HOOK_RESULT or HOOK_ERROR carrying its ticket is handled, and that
\* settles its promise; a settled promise never changes; and handling a
\* response whose ticket has no entry changes no entry and no promise.
C25_PendingEntryLifetime ==
    /\ [][\A w \in Workers :
             workers'[w].ticketCounter > workers[w].ticketCounter =>
                 workers'[w].pendingHooks =
                     workers[w].pendingHooks \cup {workers[w].ticketCounter}]_vars
    /\ [][\A w \in Workers : \A t \in workers[w].pendingHooks :
             t \notin workers'[w].pendingHooks =>
                 /\ \E i \in 1 .. Len(workers[w].outbox) :
                        /\ Handles(w, i)
                        /\ IsResponse(workers[w].outbox[i])
                        /\ workers[w].outbox[i].ticket = t
                 /\ workers'[w].promises[t + 1].state # "pending"]_vars
    /\ [][\A w \in Workers : \A t \in Tickets(w) :
             PromiseOf(w, t).state # "pending" =>
                 workers'[w].promises[t + 1] = PromiseOf(w, t)]_vars
    /\ [][\A w \in Workers : \A i \in 1 .. Len(workers[w].outbox) :
             (/\ Handles(w, i)
              /\ IsResponse(workers[w].outbox[i])
              /\ workers[w].outbox[i].ticket \notin workers[w].pendingHooks) =>
                 /\ workers'[w].pendingHooks = workers[w].pendingHooks
                 /\ workers'[w].promises = workers[w].promises]_vars

\* ------------------------------------------------- vault claims, continued

\* C26: a verifyMasterPassword call that returns false leaves masterCryptoKey
\* as it was; whenever masterCryptoKey holds a key, the key was derived from a
\* password that passed verification, was set, or was used by a migration in
\* this session; and saveData encrypts under such a key only.
C26_SessionKeyFromVerifiedPassword ==
    /\ [][\A q \in Passwords :
             (CallVerifyMasterPassword(q) /\ history'.verified.result = "false") =>
                 session'.masterCryptoKey = session.masterCryptoKey]_vars
    /\ [](session.masterCryptoKey # NoCryptoKey =>
             session.masterCryptoKey.password \in history.trusted)
    /\ [][\A s \in AppStates :
             (CallSaveData(s) /\ history'.saved = "saved") =>
                 db'[STORAGE_KEY_DATA].key.password \in history.trusted]_vars

\* The state the stored blob decrypts to under the session key.
PersistedState ==
    JSONParse(DecryptData(db[STORAGE_KEY_DATA], session.masterCryptoKey).text).value

\* C27: once every saveData the mutation handlers started has written, the
\* stored blob decrypts to the state of the last mutation.
C27_LastMutationPersisted ==
    (history.mutation # NoState /\ session.saving = << >>) =>
        PersistedState = history.mutation

\* ------------------------------------------------ MainLayout claims, continued

\* Every plugin of list a is in list b.
KeepsPlugins(a, b) ==
    \A i \in 1 .. Len(a) : \E j \in 1 .. Len(b) : b[j].id = a[i].id

\* C28: until loadInitialData has called setAppData, no handler writes the
\* stored state, and none of the stored plugins is lost.
C28_NoPersistBeforeLoad ==
    [][~loaded =>
          /\ storedPlugins' = storedPlugins
          /\ KeepsPlugins(storedPlugins, storedPlugins')]_vars

\* The record of plugin id in the list.
PluginRecord(id) == plugins[CHOOSE i \in 1 .. Len(plugins) : plugins[i].id = id]

\* C29: the sandbox the map has for a plugin of the list was loaded with the
\* code the plugin's record holds, and so was every sandbox a hook call is
\* waiting on.
C29_SandboxRunsCurrentCode ==
    /\ \A id \in PluginIds :
          (sandboxes[id] # NoSandbox /\ HasPlugin(id)) =>
              workers[sandboxes[id]].code = PluginRecord(id).code
    /\ \A k \in 1 .. Len(chains) :
          (chains[k].pc = "await" /\ HasPlugin(chains[k].enabledPlugins[chains[k].i])) =>
              workers[chains[k].w].code
                  = PluginRecord(chains[k].enabledPlugins[chains[k].i]).code

\* The value the promise an async handler returns is fulfilled with: for the
\* image plugin, the object that holds the url.
Fulfilment(data) == [content |-> Inc(data.content), settings |-> NoSettings]

\* C30: a call of executeHook for a name whose handler returns a promise does
\* not reject, and when it settles it resolves with the value that promise
\* is fulfilled with.
C30_AsyncHandlerResolves ==
    \A w \in Workers : \A t \in Tickets(w) :
        LET p == PromiseOf(w, t)
        IN (Lookup(workers[w].userHooks, p.hookName) = "async" /\ p.state # "pending") =>
               p.state = "resolved" /\ p.value = Fulfilment(p.data)

====
